---- MODULE Spec2Model ----
(***************************************************************************)
(* Model of the health-check workflow of the FHEVM Health Checker:         *)
(*   - the React component FHEHealthCheckerDemo (per-metric inputs,        *)
(*     statuses, checked marks, the Check and Decrypt handlers and the     *)
(*     effect that copies the hook's healthStatus),                        *)
(*   - the hook useFHEHealthChecker and the FHEHealthChecker contract,     *)
(*     modelled from the specification of the workflow: the hook encrypts, *)
(*     submits and awaits confirmation, and holds a status that only a     *)
(*     decrypt of the hook, which the component never calls, would set,    *)
(*   - the status classification of the web handler and of the CLI task,   *)
(*   - one run of the CLI task task:health-check: argument validation,     *)
(*     encryption, submission, confirmation, query, decryption, printing.  *)
(***************************************************************************)
EXTENDS Integers, Sequences, FiniteSets, Bags, TLC

(***************************************************************************)
(* Bounds                                                                  *)
(***************************************************************************)
\* number of metrics of HEALTH_METRICS that the model keeps (ids 0..NumMetrics-1)
NumMetrics == 2
\* number of checkHealthMetric calls issued in one session
MaxChecks == 2
\* number of handleDecryptStatus calls that may be in flight at once
MaxReveals == 2

\* largest clear value of an euint8 status
MaxClearStatus == 255

Metrics == 0 .. (NumMetrics - 1)
\* selectedMetric: number | null
Null == -1

\* type HealthStatus
HealthStatus == {"normal", "low", "high", "unknown"}

\* status codes the contract produces for a check (0 normal, 1 low, 2 high)
Codes == {0, 1, 2}

(***************************************************************************)
(* Raw input strings and parseInt                                          *)
(***************************************************************************)
Digits == {"0", "1", "2", "3", "4", "5", "6", "7", "8", "9"}

DigitVal(c) ==
  CASE c = "0" -> 0 [] c = "1" -> 1 [] c = "2" -> 2 [] c = "3" -> 3
    [] c = "4" -> 4 [] c = "5" -> 5 [] c = "6" -> 6 [] c = "7" -> 7
    [] c = "8" -> 8 [] c = "9" -> 9

\* the strings an input box may hold, as sequences of characters
RawInputs == { << >>, <<"0">>, <<"-", "3">>, <<"a">>, <<"7">> }

\* a parsed number: nan is TRUE for NaN, n is the value otherwise
NaN == [nan |-> TRUE, n |-> 0]
Num(k) == [nan |-> FALSE, n |-> k]

RECURSIVE SkipSpace(_)
SkipSpace(s) ==
  IF s # << >> /\ Head(s) = " " THEN SkipSpace(Tail(s)) ELSE s

RECURSIVE ParseDigits(_, _, _)
\* the value of the longest prefix of digits of s, NaN when there is none
ParseDigits(s, acc, seen) ==
  IF s # << >> /\ Head(s) \in Digits
    THEN ParseDigits(Tail(s), acc * 10 + DigitVal(Head(s)), TRUE)
    ELSE IF seen THEN Num(acc) ELSE NaN

\* parseInt(string): leading blanks, an optional sign, then decimal digits
ParseInt(str) ==
  LET s == SkipSpace(str)
      neg == s # << >> /\ Head(s) = "-"
      body == IF s # << >> /\ Head(s) \in {"-", "+"} THEN Tail(s) ELSE s
      v == ParseDigits(body, 0, FALSE)
  IN IF v.nan THEN NaN ELSE IF neg THEN Num(0 - v.n) ELSE v

\* healthInputs[metric.id] || "0"
InputOrZero(raw) == IF raw = << >> THEN <<"0">> ELSE raw

\* value <= 0 alone: NaN <= 0 is false, so NaN passes
InvalidValueNoNaN(value) == ~value.nan /\ value.n <= 0

\* !value || value <= 0
InvalidValue(value) == value.nan \/ value.n = 0 \/ value.n <= 0

(***************************************************************************)
(* Classification of a decrypted status                                    *)
(***************************************************************************)
\* a classification that knows the code 2 only
ClassifyStrict(statusNum) ==
  IF statusNum = 0 THEN "normal"
  ELSE IF statusNum = 1 THEN "low"
  ELSE IF statusNum = 2 THEN "high"
  ELSE "unknown"

\* handleDecryptStatus: statusNum === 0 / === 1 / else
Classify(statusNum) ==
  IF statusNum = 0 THEN "normal"
  ELSE IF statusNum = 1 THEN "low"
  ELSE "high"

\* task:health-check: statusNum === 0 / === 1 / else
ClassifyCLI(statusNum) ==
  IF statusNum = 0 THEN "NORMAL"
  ELSE IF statusNum = 1 THEN "LOW"
  ELSE "HIGH"

(***************************************************************************)
(* State                                                                   *)
(***************************************************************************)
VARIABLES
  \* wallet / chain session (useMetaMaskEthersSigner) and FHE client (useFhevm)
  isConnected, ethersSigner, fhevmInstance,
  \* what the hook knows of the deployment: "unknown", "absent" or "deployed"
  deployment,
  \* state of the hook useFHEHealthChecker
  isChecking, isDecrypting, healthStatus,
  \* UI state of the component
  healthStatuses, selectedMetric, checkedMetrics,
  \* the handleCheckHealth call in flight, if any
  checkTask,
  \* the handleDecryptStatus calls in flight
  reveal,
  \* the contract: the result handle stored per metric
  chain,
  \* history: per metric the checkHealthMetric calls issued, the calls
  \* confirmed and the result handle of the last confirmed one
  startedCnt, confirmedCnt, lastConfirmed,
  \* history: a reveal started after a confirmed check has succeeded for the
  \* metric, and the handle whose classification a reveal last stored for it
  \* (with the clear status that was expected of that reveal, if any)
  revealed, shown,
  \* classification of one clear status by the web handler and by the CLI task
  clearStatus, webStatus, cliStatusText,
  \* one run of the CLI task task:health-check, and the contract it talks to
  cli, cliChain

sessionVars == <<isConnected, ethersSigner, fhevmInstance, deployment>>
hookVars == <<isChecking, isDecrypting, healthStatus>>
uiVars == <<healthStatuses, selectedMetric, checkedMetrics>>
chainVars == <<chain>>
checkHist == <<startedCnt, confirmedCnt, lastConfirmed>>
revealHist == <<revealed, shown>>
classifyVars == <<clearStatus, webStatus, cliStatusText>>
cliVars == <<cli, cliChain>>

vars == <<sessionVars, hookVars, uiVars, checkTask, reveal, chainVars,
          checkHist, revealHist, classifyVars, cliVars>>

\* An encrypted handle is identified by the clear status it decrypts to;
\* NoHandle is the handle of a metric the contract has no result for.
NoHandle == -1

\* prior: the status of the metric when the call was made
IdleCheck == [pc |-> "idle", metric |-> 0, value |-> 0, code |-> 0,
              prior |-> "unknown"]

RECURSIVE SumUpTo(_, _)
SumUpTo(f, k) == IF k < 0 THEN 0 ELSE f[k] + SumUpTo(f, k - 1)

\* checkHealthMetric calls issued so far
nChecks == SumUpTo(startedCnt, NumMetrics - 1)

\* fheHealthChecker.contractAddress is set
contractAddress == deployment = "deployed"

\* fheHealthChecker.isDeployed === false
isDeployedFalse == deployment = "absent"

\* a render that has the not-connected early return only
MainUIConnected == isConnected

\* the component renders the dashboard (neither early return is taken)
MainUI == isConnected /\ ~isDeployedFalse

\* healthStatuses[metric.id] || "unknown"
currentStatus(m) == healthStatuses[m]

WebInit ==
  /\ isConnected = FALSE /\ ethersSigner = FALSE /\ fhevmInstance = FALSE
  /\ deployment = "unknown"
  /\ isChecking = FALSE /\ isDecrypting = FALSE /\ healthStatus = "unknown"
  /\ healthStatuses = [m \in Metrics |-> "unknown"]
  /\ selectedMetric = Null
  /\ checkedMetrics = [m \in Metrics |-> FALSE]
  /\ checkTask = IdleCheck
  /\ reveal = EmptyBag
  /\ chain = [m \in Metrics |-> NoHandle]
  /\ startedCnt = [m \in Metrics |-> 0]
  /\ confirmedCnt = [m \in Metrics |-> 0]
  /\ lastConfirmed = [m \in Metrics |-> NoHandle]
  /\ revealed = [m \in Metrics |-> FALSE]
  /\ shown = [m \in Metrics |-> [handle |-> NoHandle, expect |-> -1]]

ClassifyIdle ==
  /\ clearStatus = 0 /\ webStatus = "unset" /\ cliStatusText = "unset"

\* the largest metric code of the CLI task (0=BP, 1=HR, 2=BG, 3=Temp, 4=O2)
MaxMetricCode == 4
MetricCodes == 0 .. MaxMetricCode

\* a run of task:health-check: where it is, its arguments as parsed, the
\* calls it has made so far, "confirmed" for the return of tx.wait() and
\* "print" for the printed classification (log), the entry point its
\* transaction went to, the metric it queried, the handle it got and the
\* error it ended with
CliRun(pc, metricType, value) ==
  [pc |-> pc, metricType |-> metricType, value |-> value, log |-> << >>,
   entry |-> "none", queried |-> Null, handle |-> NoHandle, error |-> "none"]

\* no task is run
CliIdle ==
  /\ cli = CliRun("idle", Num(0), Num(0))
  /\ cliChain = [k \in MetricCodes |-> NoHandle]

Init == WebInit /\ ClassifyIdle /\ CliIdle

(***************************************************************************)
(* External session: wallet, FHE client, deployment lookup                 *)
(***************************************************************************)
\* the wallet connects or disconnects; a signer exists only while connected
WalletChange ==
  /\ \E c \in BOOLEAN, sg \in BOOLEAN :
       /\ sg => c
       /\ <<c, sg>> # <<isConnected, ethersSigner>>
       /\ isConnected' = c
       /\ ethersSigner' = sg
  /\ UNCHANGED <<fhevmInstance, deployment, hookVars, uiVars, checkTask, reveal,
                 chainVars, checkHist, revealHist, classifyVars, cliVars>>

\* the FHE client instance becomes ready or is dropped
FhevmChange ==
  /\ fhevmInstance' = ~fhevmInstance
  /\ UNCHANGED <<isConnected, ethersSigner, deployment, hookVars, uiVars,
                 checkTask, reveal, chainVars, checkHist, revealHist, classifyVars, cliVars>>

\* the hook resolves the contract for the current chain
DeploymentChange ==
  /\ \E d \in {"unknown", "absent", "deployed"} :
       /\ d # deployment
       /\ deployment' = d
  /\ UNCHANGED <<isConnected, ethersSigner, fhevmInstance, hookVars, uiVars,
                 checkTask, reveal, chainVars, checkHist, revealHist, classifyVars, cliVars>>

(***************************************************************************)
(* Component: effect                                                       *)
(***************************************************************************)
\* the effect without its test of healthStatus
StatusEffectAlways(statuses, sel, hs) ==
  IF sel # Null THEN [statuses EXCEPT ![sel] = hs] ELSE statuses

\* useEffect on [healthStatus, selectedMetric]: copy the hook's status into
\* the slot of the selected metric
StatusEffect(statuses, sel, hs) ==
  IF sel # Null /\ hs # "unknown"
    THEN [statuses EXCEPT ![sel] = hs]
    ELSE statuses

(***************************************************************************)
(* Component: handleInputChange and handleCheckHealth                      *)
(*                                                                         *)
(* healthInputs[id] is written by handleInputChange only and read by the   *)
(* Check button and handleCheckHealth of the same metric only.  The text   *)
(* of the box at the time of the click is therefore the input `raw` of the *)
(* click: the user types raw (handleInputChange) and presses Check.        *)
(***************************************************************************)
\* a Check button that stays enabled while a check is in flight
CheckButtonNoChecking(m, raw) ==
  /\ MainUI
  /\ fhevmInstance
  /\ raw # << >>

\* the Check button of a metric card is rendered and enabled
CheckButton(m, raw) ==
  /\ MainUI
  /\ fhevmInstance
  /\ raw # << >>
  /\ ~isChecking

\* handleCheckHealth, value rejected: reset the slot and return
CheckInvalid(m, raw) ==
  /\ CheckButton(m, raw)
  /\ InvalidValue(ParseInt(InputOrZero(raw)))
  /\ healthStatuses' = [healthStatuses EXCEPT ![m] = "unknown"]
  /\ UNCHANGED <<sessionVars, hookVars, selectedMetric, checkedMetrics,
                 checkTask, reveal, chainVars, checkHist, revealHist,
                 classifyVars, cliVars>>

\* handleCheckHealth, value accepted: select the metric and call the hook
CheckStart(m, raw) ==
  /\ CheckButton(m, raw)
  /\ nChecks < MaxChecks
  /\ LET value == ParseInt(InputOrZero(raw)) IN
       /\ ~InvalidValue(value)
       /\ selectedMetric' = m
       /\ healthStatuses' = StatusEffect(healthStatuses, m, healthStatus)
       /\ checkTask' = [pc |-> "encrypt", metric |-> m, value |-> value.n,
                        code |-> 0, prior |-> healthStatuses[m]]
  /\ isChecking' = TRUE
  /\ startedCnt' = [startedCnt EXCEPT ![m] = @ + 1]
  /\ UNCHANGED <<sessionVars, isDecrypting, healthStatus, checkedMetrics,
                 reveal, chainVars, confirmedCnt, lastConfirmed, revealHist,
                 classifyVars, cliVars>>

\* after await checkHealthMetric: setCheckedMetrics(prev => ({...prev, [id]: true}))
OnCheckResolved(m) == [checkedMetrics EXCEPT ![m] = TRUE]

\* a catch block that marks the metric all the same
OnCheckRejectedMarks(m) == [checkedMetrics EXCEPT ![m] = TRUE]

\* catch (error): console.error only
OnCheckRejected(m) == checkedMetrics

(***************************************************************************)
(* Hook: checkHealthMetric(metricId, value)                                *)
(***************************************************************************)
\* the value is encrypted into an input handle and proof
EncryptOK ==
  /\ checkTask.pc = "encrypt"
  /\ checkTask' = [checkTask EXCEPT !.pc = "submit"]
  /\ UNCHANGED <<sessionVars, hookVars, uiVars, reveal, chainVars, checkHist,
                 revealHist, classifyVars, cliVars>>

\* the transaction is sent to the entry point of the metric
SubmitOK ==
  /\ checkTask.pc = "submit"
  /\ checkTask' = [checkTask EXCEPT !.pc = "pending"]
  /\ UNCHANGED <<sessionVars, hookVars, uiVars, reveal, chainVars, checkHist,
                 revealHist, classifyVars, cliVars>>

\* the transaction is mined: the contract stores the result handle of the metric
TxMined ==
  /\ checkTask.pc = "pending"
  /\ \E c \in Codes :
       /\ chain' = [chain EXCEPT ![checkTask.metric] = c]
       /\ checkTask' = [checkTask EXCEPT !.pc = "mined", !.code = c]
  /\ UNCHANGED <<sessionVars, hookVars, uiVars, reveal, checkHist, revealHist,
                 classifyVars, cliVars>>

\* the confirmation wait returns: the promise resolves and the handler goes on
ConfirmOK ==
  /\ checkTask.pc = "mined"
  /\ checkedMetrics' = OnCheckResolved(checkTask.metric)
  /\ isChecking' = FALSE
  /\ checkTask' = IdleCheck
  /\ confirmedCnt' = [confirmedCnt EXCEPT ![checkTask.metric] = @ + 1]
  /\ lastConfirmed' = [lastConfirmed EXCEPT ![checkTask.metric] = checkTask.code]
  /\ UNCHANGED <<sessionVars, isDecrypting, healthStatus,
                 healthStatuses, selectedMetric, reveal, chainVars,
                 startedCnt, revealHist, classifyVars, cliVars>>

\* encryption, submission or confirmation fails: the promise rejects and the
\* handler's catch block runs
CheckFail ==
  /\ checkTask.pc \in {"encrypt", "submit", "pending", "mined"}
  /\ checkedMetrics' = OnCheckRejected(checkTask.metric)
  /\ isChecking' = FALSE
  /\ checkTask' = IdleCheck
  /\ UNCHANGED <<sessionVars, isDecrypting, healthStatus,
                 healthStatuses, selectedMetric, reveal, chainVars, checkHist,
                 revealHist, classifyVars, cliVars>>

(***************************************************************************)
(* Component: handleDecryptStatus                                          *)
(***************************************************************************)
\* a Decrypt button that is not tied to checkedMetrics
DecryptButtonUngated(m) ==
  /\ MainUI
  /\ currentStatus(m) = "unknown"
  /\ ~isDecrypting

\* the Decrypt button of a metric card is rendered and enabled
DecryptButton(m) ==
  /\ MainUI
  /\ checkedMetrics[m]
  /\ currentStatus(m) = "unknown"
  /\ ~isDecrypting

\* a test of the prerequisites that leaves out the signer
NotReadyNoSigner == ~fhevmInstance \/ ~contractAddress

\* !fhevmInstance || !fheHealthChecker.contractAddress || !ethersSigner
NotReady == ~fhevmInstance \/ ~contractAddress \/ ~ethersSigner

\* the calls in flight, and whether one more may start
Reveals == BagToSet(reveal)
RoomForReveal == BagCardinality(reveal) < MaxReveals

\* one call in flight moves from record r to record q / returns
Move(r, q) == (reveal (-) SetToBag({r})) (+) SetToBag({q})
Drop(r) == reveal (-) SetToBag({r})

NewReveal(m, pc) ==
  [pc |-> pc, metric |-> m, handle |-> NoHandle,
   after |-> confirmedCnt[m] > 0, expect |-> -1]

\* handleDecryptStatus, a prerequisite is missing: log and return
RevealNotReady(m) ==
  /\ DecryptButton(m)
  /\ NotReady
  /\ RoomForReveal
  /\ reveal' = reveal (+) SetToBag({NewReveal(m, "notready")})
  /\ UNCHANGED <<sessionVars, hookVars, uiVars, checkTask, chainVars, checkHist,
                 revealHist, classifyVars, cliVars>>

\* handleDecryptStatus, prerequisites present: start importing the ABI
RevealStart(m) ==
  /\ DecryptButton(m)
  /\ ~NotReady
  /\ RoomForReveal
  /\ reveal' = reveal (+) SetToBag({NewReveal(m, "import")})
  /\ UNCHANGED <<sessionVars, hookVars, uiVars, checkTask, chainVars, checkHist,
                 revealHist, classifyVars, cliVars>>

\* the ABI is imported; readonlyContract.getHealthStatus(metricId) is called
ImportOK(r) ==
  /\ r.pc = "import"
  /\ reveal' = Move(r, [r EXCEPT !.pc = "query"])
  /\ UNCHANGED <<sessionVars, hookVars, uiVars, checkTask, chainVars, checkHist,
                 revealHist, classifyVars, cliVars>>

\* a query for the first metric whatever the card
QueriedMetricFirst(metricId) == 0

\* the metric whose handle the handler asks the contract for
QueriedMetric(metricId) == metricId

\* the clear status expected of a reveal that queries now: known when exactly
\* two checks of the metric were issued and both are confirmed
ExpectAtQuery(m) ==
  IF startedCnt[m] = 2 /\ confirmedCnt[m] = 2 THEN lastConfirmed[m] ELSE -1

\* getHealthStatus answers with the handle the contract holds now; the handler
\* goes on to FhevmDecryptionSignature.loadOrSign
QueryOK(r) ==
  /\ r.pc = "query"
  /\ reveal' = Move(r, [r EXCEPT !.pc = "sign",
                                 !.handle = chain[QueriedMetric(r.metric)],
                                 !.expect = ExpectAtQuery(r.metric)])
  /\ UNCHANGED <<sessionVars, hookVars, uiVars, checkTask, chainVars, checkHist,
                 revealHist, classifyVars, cliVars>>

\* loadOrSign returns a signature; fhevmInstance.userDecrypt is called
SignOK(r) ==
  /\ r.pc = "sign"
  /\ reveal' = Move(r, [r EXCEPT !.pc = "decrypt"])
  /\ UNCHANGED <<sessionVars, hookVars, uiVars, checkTask, chainVars, checkHist,
                 revealHist, classifyVars, cliVars>>

\* a call that is logging a diagnostic holds nothing but its metric
Logging(r, pc) == [NewReveal(r.metric, pc) EXCEPT !.after = r.after]

\* loadOrSign returns null: log and return
SignNull(r) ==
  /\ r.pc = "sign"
  /\ reveal' = Move(r, Logging(r, "nosig"))
  /\ UNCHANGED <<sessionVars, hookVars, uiVars, checkTask, chainVars, checkHist,
                 revealHist, classifyVars, cliVars>>

\* a store into the slot of the selected metric
StoreStatusSelected(statuses, metricId, status) ==
  [statuses EXCEPT ![IF selectedMetric # Null THEN selectedMetric ELSE metricId] = status]

\* setHealthStatuses(prev => ({ ...prev, [metricId]: status }))
StoreStatus(statuses, metricId, status) == [statuses EXCEPT ![metricId] = status]

\* userDecrypt answers with the clear value of the handle: classify and store
DecryptOK(r) ==
  /\ r.pc = "decrypt"
  /\ healthStatuses' = StoreStatus(healthStatuses, r.metric, Classify(r.handle))
  /\ revealed' = [revealed EXCEPT ![r.metric] = @ \/ r.after]
  /\ shown' = [shown EXCEPT ![r.metric] = [handle |-> r.handle, expect |-> r.expect]]
  /\ reveal' = Drop(r)
  /\ UNCHANGED <<sessionVars, hookVars, selectedMetric,
                 checkedMetrics, checkTask, chainVars, checkHist, classifyVars, cliVars>>

\* where the handler goes when the promise awaited at `stage` rejects: every
\* await of the handler is inside its try block
OnReject(stage) == "caught"

\* a catch block that resets the slot
OnRevealCaughtReset(statuses, metricId) == [statuses EXCEPT ![metricId] = "unknown"]

\* the statuses after the catch block: console.error only
OnRevealCaught(statuses, metricId) == statuses

\* the import, the query, loadOrSign or userDecrypt rejects
RevealFail(r) ==
  /\ r.pc \in {"import", "query", "sign", "decrypt"}
  /\ reveal' = Move(r, Logging(r, OnReject(r.pc)))
  /\ healthStatuses' = OnRevealCaught(healthStatuses, r.metric)
  /\ UNCHANGED <<sessionVars, hookVars, selectedMetric,
                 checkedMetrics, checkTask, chainVars, checkHist, revealHist,
                 classifyVars, cliVars>>

\* the diagnostic is logged and the handler returns
RevealReturn(r) ==
  /\ r.pc \in {"notready", "nosig", "caught"}
  /\ reveal' = Drop(r)
  /\ UNCHANGED <<sessionVars, hookVars, uiVars, checkTask, chainVars, checkHist,
                 revealHist, classifyVars, cliVars>>

(***************************************************************************)
(* Specification of the web workflow                                       *)
(***************************************************************************)
Next ==
  \/ WalletChange
  \/ FhevmChange
  \/ DeploymentChange
  \/ \E m \in Metrics, raw \in RawInputs : CheckInvalid(m, raw)
  \/ \E m \in Metrics, raw \in RawInputs : CheckStart(m, raw)
  \/ EncryptOK
  \/ SubmitOK
  \/ TxMined
  \/ ConfirmOK
  \/ CheckFail
  \/ \E m \in Metrics : RevealNotReady(m)
  \/ \E m \in Metrics : RevealStart(m)
  \/ \E r \in Reveals : ImportOK(r)
  \/ \E r \in Reveals : QueryOK(r)
  \/ \E r \in Reveals : SignOK(r)
  \/ \E r \in Reveals : SignNull(r)
  \/ \E r \in Reveals : DecryptOK(r)
  \/ \E r \in Reveals : RevealFail(r)
  \/ \E r \in Reveals : RevealReturn(r)

Spec == Init /\ [][Next]_vars

(***************************************************************************)
(* Specification of the classification: one clear status, classified by    *)
(* the web handler and by the CLI task                                     *)
(***************************************************************************)
InitClassify ==
  /\ WebInit
  /\ CliIdle
  /\ clearStatus \in 0 .. MaxClearStatus
  /\ webStatus = "unset"
  /\ cliStatusText = "unset"

\* handleDecryptStatus: const statusNum = Number(clearStatus); if ... else ...
WebClassify ==
  /\ webStatus = "unset"
  /\ webStatus' = Classify(clearStatus)
  /\ UNCHANGED <<sessionVars, hookVars, uiVars, checkTask, reveal, chainVars,
                 checkHist, revealHist, clearStatus, cliStatusText, cliVars>>

\* task:health-check: const statusNum = Number(clearStatus); if ... else ...
CliClassify ==
  /\ cliStatusText = "unset"
  /\ cliStatusText' = ClassifyCLI(clearStatus)
  /\ UNCHANGED <<sessionVars, hookVars, uiVars, checkTask, reveal, chainVars,
                 checkHist, revealHist, clearStatus, webStatus, cliVars>>

NextClassify == WebClassify \/ CliClassify

SpecClassify == InitClassify /\ [][NextClassify]_vars

(***************************************************************************)
(* CLI task task:health-check                                              *)
(***************************************************************************)
\* the --metric and --value arguments a run may be given
CliMetricArgs ==
  { <<"0">>, <<"1">>, <<"2">>, <<"3">>, <<"4">>, <<"5">>, <<"1", "2">>,
    <<"-", "1">>, <<"a">> }
CliValueArgs == { <<"7">>, <<"1", "2", "0">> }

webVars == <<sessionVars, hookVars, uiVars, checkTask, reveal, chainVars,
             checkHist, revealHist>>

InitCLI ==
  /\ WebInit
  /\ ClassifyIdle
  /\ \E ma \in CliMetricArgs, va \in CliValueArgs :
       cli = CliRun("start", ParseInt(ma), ParseInt(va))
  /\ cliChain = [k \in MetricCodes |-> NoHandle]

\* a range check that tests the upper end only
MetricOutOfRangeHigh(metricType) == ~metricType.nan /\ metricType.n > MaxMetricCode

\* metricType < 0 || metricType > 4: both comparisons are false for NaN
MetricOutOfRange(metricType) ==
  ~metricType.nan /\ (metricType.n < 0 \/ metricType.n > MaxMetricCode)

\* a switch without a default branch: what is no case goes the way of case 0
EntryPointFirst(metricType) ==
  IF metricType.nan THEN "checkBloodPressure"
  ELSE CASE metricType.n = 1 -> "checkHeartRate"
         [] metricType.n = 2 -> "checkBloodGlucose"
         [] metricType.n = 3 -> "checkBodyTemperature"
         [] metricType.n = 4 -> "checkBloodOxygen"
         [] OTHER -> "checkBloodPressure"

\* switch (metricType): the entry point of the case, "default" when none matches
EntryPoint(metricType) ==
  IF metricType.nan THEN "default"
  ELSE CASE metricType.n = 0 -> "checkBloodPressure"
         [] metricType.n = 1 -> "checkHeartRate"
         [] metricType.n = 2 -> "checkBloodGlucose"
         [] metricType.n = 3 -> "checkBodyTemperature"
         [] metricType.n = 4 -> "checkBloodOxygen"
         [] OTHER -> "default"

\* the contract: the metric whose result an entry point stores
EntryMetric(entry) ==
  CASE entry = "checkBloodPressure" -> 0
    [] entry = "checkHeartRate" -> 1
    [] entry = "checkBloodGlucose" -> 2
    [] entry = "checkBodyTemperature" -> 3
    [] entry = "checkBloodOxygen" -> 4

\* a query for the result of the first metric whatever the code
CliQueriedMetricFirst(metricType) == 0

\* getHealthStatus(metricType): the metric whose handle the task asks for
CliQueriedMetric(metricType) == metricType.n

\* the task goes on to pc after making the calls `calls`
CliStep(pc, calls) == [cli EXCEPT !.pc = pc, !.log = @ \o calls]

\* lines 96-98: the range check throws
CliRangeError ==
  /\ cli.pc = "start"
  /\ MetricOutOfRange(cli.metricType)
  /\ cli' = [cli EXCEPT !.pc = "failed", !.error = "range"]
  /\ UNCHANGED <<webVars, classifyVars, cliChain>>

\* lines 96-103: the range check passes; fhevm.initializeCLIApi() is called
CliRangeOK ==
  /\ cli.pc = "start"
  /\ ~MetricOutOfRange(cli.metricType)
  /\ cli' = CliStep("init", <<"initializeCLIApi">>)
  /\ UNCHANGED <<webVars, classifyVars, cliChain>>

\* lines 105-117: deployment, signers and contract are fetched and
\* createEncryptedInput(...).add32(value).encrypt() is called
CliInitOK ==
  /\ cli.pc = "init"
  /\ cli' = CliStep("encrypt", <<"encrypt">>)
  /\ UNCHANGED <<webVars, classifyVars, cliChain>>

\* lines 119-148: the encryption returns; the case of the switch sends the
\* transaction to its entry point
CliSubmit ==
  /\ cli.pc = "encrypt"
  /\ EntryPoint(cli.metricType) # "default"
  /\ cli' = [CliStep("submit", <<"submit">>) EXCEPT
               !.entry = EntryPoint(cli.metricType)]
  /\ UNCHANGED <<webVars, classifyVars, cliChain>>

\* lines 149-150: the encryption returns; no case matches and default throws
CliSwitchDefault ==
  /\ cli.pc = "encrypt"
  /\ EntryPoint(cli.metricType) = "default"
  /\ cli' = [cli EXCEPT !.pc = "failed", !.error = "default"]
  /\ UNCHANGED <<webVars, classifyVars, cliChain>>

\* lines 153-154: the transaction is sent; tx.wait() is called
CliSent ==
  /\ cli.pc = "submit"
  /\ cli' = CliStep("wait", <<"wait">>)
  /\ UNCHANGED <<webVars, classifyVars, cliChain>>

\* the transaction is mined: the contract stores the result handle of the
\* metric of the entry point
CliTxMined ==
  /\ cli.pc = "wait"
  /\ \E c \in Codes :
       cliChain' = [cliChain EXCEPT ![EntryMetric(cli.entry)] = c]
  /\ cli' = [cli EXCEPT !.pc = "mined"]
  /\ UNCHANGED <<webVars, classifyVars>>

\* lines 154-158: tx.wait() returns; getHealthStatus is called
CliWaitOK ==
  /\ cli.pc = "mined"
  /\ cli' = [CliStep("query", <<"confirmed", "query">>) EXCEPT
               !.queried = CliQueriedMetric(cli.metricType)]
  /\ UNCHANGED <<webVars, classifyVars, cliChain>>

\* lines 158-167: getHealthStatus answers with the handle the contract holds
\* now; fhevm.userDecryptEuint is called for it
CliQueryOK ==
  /\ cli.pc = "query"
  /\ cli' = [CliStep("decrypt", <<"decrypt">>) EXCEPT
               !.handle = cliChain[cli.queried]]
  /\ UNCHANGED <<webVars, classifyVars, cliChain>>

\* lines 162-178: the decryption answers with the clear value of the handle;
\* it is classified and printed
CliDecryptOK ==
  /\ cli.pc = "decrypt"
  /\ cli.handle # NoHandle
  /\ clearStatus' = cli.handle
  /\ cliStatusText' = ClassifyCLI(cli.handle)
  /\ cli' = CliStep("done", <<"print">>)
  /\ UNCHANGED <<webVars, webStatus, cliChain>>

\* an awaited call rejects (the decryption of a handle the contract never set
\* always does): the task ends with that error
CliFail ==
  /\ cli.pc \in {"init", "encrypt", "submit", "wait", "mined", "query", "decrypt"}
  /\ cli' = [cli EXCEPT !.pc = "failed", !.error = "rejected"]
  /\ UNCHANGED <<webVars, classifyVars, cliChain>>

NextCLI ==
  \/ CliRangeError
  \/ CliRangeOK
  \/ CliInitOK
  \/ CliSubmit
  \/ CliSwitchDefault
  \/ CliSent
  \/ CliTxMined
  \/ CliWaitOK
  \/ CliQueryOK
  \/ CliDecryptOK
  \/ CliFail

SpecCLI == InitCLI /\ [][NextCLI]_vars

(***************************************************************************)
(* Properties                                                              *)
(***************************************************************************)
Known == {"normal", "low", "high"}

\* the classification the specification gives for a clear status
ExpectedStatus(c) ==
  CASE c = 0 -> "normal"
    [] c = 1 -> "low"
    [] OTHER -> "high"

\* the web status that a CLI status text stands for
Lower(text) ==
  CASE text = "NORMAL" -> "normal"
    [] text = "LOW" -> "low"
    [] text = "HIGH" -> "high"
    [] OTHER -> text

C2_Classification ==
  /\ webStatus # "unset" => webStatus = ExpectedStatus(clearStatus)
  /\ cliStatusText # "unset" => Lower(cliStatusText) = ExpectedStatus(clearStatus)
  /\ (webStatus # "unset" /\ cliStatusText # "unset")
       => /\ Lower(cliStatusText) = webStatus
          /\ cliStatusText \in {"NORMAL", "LOW", "HIGH"}

C2_Witness ==
  clearStatus = MaxClearStatus /\ webStatus = "high" /\ cliStatusText = "HIGH"

\* raw inputs that are empty, zero, negative or without any digit
EmptyRaw(raw) == raw = << >>
ZeroRaw(raw) == raw # << >> /\ \A i \in 1 .. Len(raw) : raw[i] = "0"
NegativeRaw(raw) ==
  Len(raw) >= 2 /\ raw[1] = "-" /\ \A i \in 2 .. Len(raw) : raw[i] \in Digits
NonNumericRaw(raw) == raw # << >> /\ \A i \in 1 .. Len(raw) : raw[i] \notin Digits
BadRaw(raw) == EmptyRaw(raw) \/ ZeroRaw(raw) \/ NegativeRaw(raw) \/ NonNumericRaw(raw)

BadRaws == {raw \in RawInputs : BadRaw(raw)}

\* the validation of handleCheckHealth rejects every such input
BadRawsRejected == \A raw \in BadRaws : InvalidValue(ParseInt(InputOrZero(raw)))

\* C3: a Check whose raw input is zero, negative, empty or non-numeric is
\* rejected by the handler's validation, issues no checkHealthMetric call and
\* leaves the status of the metric "unknown".
\* (the implication is written consequent first)
C3_InvalidInputIssuesNoCall ==
  [][ /\ BadRawsRejected
      /\ \A m \in Metrics :
           \/ /\ UNCHANGED <<checkTask, isChecking, chain, startedCnt,
                             selectedMetric, checkedMetrics>>
              /\ healthStatuses'[m] = "unknown"
           \/ ~(\E raw \in BadRaws : CheckInvalid(m, raw) \/ CheckStart(m, raw)) ]_vars

\* an invalid Check has reset a slot that a reveal had filled
C3_Witness ==
  \E m \in Metrics : revealed[m] /\ healthStatuses[m] = "unknown" /\ ~isChecking

\* C4: a metric is marked checked only after a check of it was confirmed;
\* a check that fails never marks it.
C4_CheckedOnlyAfterConfirmation ==
  \A m \in Metrics : checkedMetrics[m] => confirmedCnt[m] > 0

C4_Witness ==
  \E m, k \in Metrics :
    /\ checkedMetrics[m]
    /\ ~checkedMetrics[k] /\ startedCnt[k] > 0 /\ ~isChecking

\* C5: when a check of a metric is confirmed, the metric is checked and its
\* status is "unknown", also when the status was normal, low or high at the
\* time the check was submitted.
C5_ResubmitRestartsCycle ==
  [][ (ConfirmOK /\ checkTask.prior \in Known) =>
        /\ checkedMetrics'[checkTask.metric]
        /\ healthStatuses'[checkTask.metric] = "unknown" ]_vars

\* C6: a reveal that queries the contract after exactly two checks of the
\* metric were issued and confirmed stores the classification of the second.
C6_LastSubmissionWins ==
  \A m \in Metrics :
    (shown[m].expect # -1 /\ healthStatuses[m] # "unknown")
      => healthStatuses[m] = ExpectedStatus(shown[m].expect)

C6_Witness ==
  \E m \in Metrics :
    /\ shown[m].expect = 1 /\ healthStatuses[m] = "low"
    /\ startedCnt[m] = 2 /\ confirmedCnt[m] = 2

\* C7: getHealthStatus is called only for a metric that is marked checked:
\* every handleDecryptStatus call in flight is for a metric with a confirmed
\* check.
C7_NoQueryUnlessChecked ==
  \A r \in Reveals :
    checkedMetrics[r.metric] /\ confirmedCnt[r.metric] > 0 /\ r.after

C7_Witness ==
  \E r \in Reveals, k \in Metrics :
    /\ r.pc = "sign" /\ r.handle # NoHandle
    /\ ~checkedMetrics[k] /\ startedCnt[k] > 0

\* the steps of a handleDecryptStatus call other than the final store
RevealStepWithoutStore ==
  \/ \E m \in Metrics : RevealNotReady(m) \/ RevealStart(m)
  \/ \E r \in Reveals :
       ImportOK(r) \/ QueryOK(r) \/ SignOK(r) \/ SignNull(r) \/ RevealFail(r)
         \/ RevealReturn(r)

\* C8: a reveal that fails stores nothing: none of its steps changes a
\* status, and the handler returns, no rejection leaves it.
\* (the implication is written consequent first)
C8_FailedRevealKeepsStatuses ==
  [][ /\ UNCHANGED healthStatuses \/ ~RevealStepWithoutStore
      /\ \A r \in BagToSet(reveal') : r.pc # "rejected" ]_vars

C8_Witness ==
  /\ \E r \in Reveals : r.pc = "caught"
  /\ \E m \in Metrics : healthStatuses[m] \in Known

\* the steps of a handleCheckHealth call other than its confirmation
CheckStepWithoutConfirm ==
  \/ \E m \in Metrics, raw \in RawInputs : CheckStart(m, raw)
  \/ EncryptOK
  \/ SubmitOK
  \/ TxMined
  \/ CheckFail

CheckOp(m) ==
  \/ \E raw \in RawInputs : CheckInvalid(m, raw) \/ CheckStart(m, raw)
  \/ /\ checkTask.pc # "idle"
     /\ checkTask.metric = m
     /\ (EncryptOK \/ SubmitOK \/ TxMined \/ ConfirmOK \/ CheckFail)
RevealOp(m) ==
  \/ RevealNotReady(m)
  \/ RevealStart(m)
  \/ \E r \in Reveals :
       /\ r.metric = m
       /\ (ImportOK(r) \/ QueryOK(r) \/ SignOK(r) \/ SignNull(r) \/ DecryptOK(r)
             \/ RevealFail(r) \/ RevealReturn(r))

\* C10: a step of a check or of a reveal of metric m leaves the status and
\* the checked mark of every other metric unchanged.
\* (the implication is written consequent first)
C10_OtherMetricsUntouched ==
  [][ \A m \in Metrics :
        \/ \A k \in Metrics \ {m} :
             /\ healthStatuses'[k] = healthStatuses[k]
             /\ checkedMetrics'[k] = checkedMetrics[k]
        \/ ~(CheckOp(m) \/ RevealOp(m)) ]_vars

C10_Witness ==
  \E m, k \in Metrics :
    /\ m # k
    /\ healthStatuses[m] = "normal" /\ healthStatuses[k] = "high"
    /\ selectedMetric = k

\* the steps of metric m that may change its status or its checked mark
ConfirmOf(m) == checkTask.pc = "mined" /\ checkTask.metric = m /\ ConfirmOK
DecryptOf(m) == \E r \in Reveals : r.metric = m /\ DecryptOK(r)
InvalidOf(m) == \E raw \in RawInputs : CheckInvalid(m, raw)

CallsOf(b, m) ==
  BagCardinality([r \in {q \in BagToSet(b) : q.metric = m} |-> CopiesIn(r, b)])

\* a click on an enabled Decrypt button with the prerequisites present
DecryptClickReady(m) ==
  /\ isConnected /\ deployment = "deployed" /\ fhevmInstance /\ ethersSigner
  /\ checkedMetrics[m] /\ healthStatuses[m] = "unknown" /\ ~isDecrypting
  /\ RoomForReveal

\* C12: reveals of one metric that overlap are not deduplicated: a click on
\* the Decrypt button starts a call of its own whatever calls of the metric
\* are in flight, each call that succeeds stores the classification of the
\* handle it queried itself, and the status of the metric is that of the call
\* whose decrypt succeeded last.
\* (the implications are written consequent first)
C12_OverlappingRevealsLastWins ==
  [][ \A m \in Metrics :
        /\ ENABLED RevealStart(m) \/ ~DecryptClickReady(m)
        /\ CallsOf(reveal', m) = CallsOf(reveal, m) + 1 \/ ~RevealStart(m)
        /\ \A r \in Reveals :
             \/ /\ healthStatuses'[m] = ExpectedStatus(r.handle)
                /\ shown'[m].handle = r.handle
                /\ CallsOf(reveal', m) = CallsOf(reveal, m) - 1
             \/ ~(r.metric = m /\ DecryptOK(r))
        /\ \/ healthStatuses'[m] \notin Known
           \/ healthStatuses'[m] = ExpectedStatus(shown'[m].handle) ]_vars

\* two reveals of one metric overlapped and queried different handles: the
\* first has stored its classification, the second is still decrypting
C12_Witness ==
  \E r \in Reveals :
    /\ r.pc = "decrypt"
    /\ healthStatuses[r.metric] \in Known
    /\ shown[r.metric].handle # r.handle

\* a checkHealthMetric call is awaiting encryption, submission or confirmation
CheckInFlight == checkTask.pc \in {"encrypt", "submit", "pending", "mined"}

\* C13 (as stated): while a check of a metric is in flight, a check of a
\* different metric can be started: with the dashboard shown, the FHE client
\* ready and a valid input typed, the Check of the other metric is enabled.
C13_ChecksOfMetricsOverlap ==
  \A m \in Metrics :
    (/\ CheckInFlight /\ checkTask.metric # m
     /\ isConnected /\ deployment # "absent" /\ fhevmInstance
     /\ nChecks < MaxChecks)
      => ENABLED CheckStart(m, <<"7">>)

\* C13 (amended): a check is started only while no check of any metric is in
\* flight: every Check button is disabled while the hook is checking.  What
\* may overlap with a check of one metric are reveals of other metrics.
\* (the implication is written consequent first)
C13_OneCheckAtATime ==
  [][ /\ isChecking <=> CheckInFlight
      /\ \A m \in Metrics :
           \/ ~CheckInFlight /\ ~isChecking
           \/ ~(\E raw \in RawInputs : CheckStart(m, raw) \/ CheckInvalid(m, raw)) ]_vars

\* a check of one metric awaits confirmation while a reveal of another metric
\* is decrypting, with the dashboard shown and the FHE client ready
C13_Witness ==
  \E r \in Reveals :
    /\ r.pc = "decrypt"
    /\ checkTask.pc = "pending" /\ checkTask.metric # r.metric
    /\ isChecking
    /\ isConnected /\ deployment # "absent" /\ fhevmInstance

\* a parsed --metric argument that is no integer of 0..4
NoMetricCode(metricType) == metricType.nan \/ metricType.n \notin MetricCodes

\* the run has made the call (or, for "confirmed" and "print", the step)
Called(call) == \E i \in 1 .. Len(cli.log) : cli.log[i] = call

\* C14: a run of task:health-check whose metric code is outside 0..4 sends no
\* check transaction, queries no status handle and prints no classification;
\* it never completes, and the only way it ends is with an error.
C14_InvalidMetricCodeIsFatal ==
  NoMetricCode(cli.metricType) =>
    /\ ~Called("submit") /\ ~Called("query") /\ ~Called("print")
    /\ cli.entry = "none" /\ cli.queried = Null
    /\ cliStatusText = "unset"
    /\ cliChain = [k \in MetricCodes |-> NoHandle]
    /\ cli.pc \in {"start", "init", "encrypt", "failed"}
    /\ cli.pc = "failed" => cli.error \in {"range", "default", "rejected"}
    /\ cli.pc # "failed" => ENABLED NextCLI

\* metric code 5: the range check has thrown
C14_Witness ==
  /\ cli.metricType = Num(5)
  /\ cli.pc = "failed" /\ cli.error = "range"

\* a handler of a metric card is entered
HandlerEntered ==
  \E m \in Metrics :
    \/ \E raw \in RawInputs : CheckInvalid(m, raw) \/ CheckStart(m, raw)
    \/ RevealNotReady(m)
    \/ RevealStart(m)

\* C15: while the wallet is connected and the contract is reported as not
\* deployed, no handler of a metric card is entered: no check is issued, no
\* reveal call is added to those in flight and no status is reset.
C15_NotDeployedBlocks ==
  [][ (isConnected /\ deployment = "absent") =>
        /\ startedCnt' = startedCnt
        /\ BagCardinality(reveal') <= BagCardinality(reveal)
        /\ \A m \in Metrics :
             healthStatuses'[m] = healthStatuses[m] \/ healthStatuses'[m] \in Known
        /\ ~HandlerEntered ]_vars

\* the not-deployed page is shown although everything else a Check and a
\* Decrypt need is there, and a reveal started earlier is still in flight
C15_Witness ==
  /\ isConnected /\ deployment = "absent"
  /\ fhevmInstance /\ ethersSigner /\ ~isChecking /\ nChecks < MaxChecks
  /\ \E m \in Metrics : checkedMetrics[m] /\ healthStatuses[m] = "unknown"
  /\ \E r \in Reveals : r.pc = "query"

\* the FHE client instance, the contract address or the signer is missing
PrerequisiteMissing == ~fhevmInstance \/ deployment # "deployed" \/ ~ethersSigner

\* the calls in bag b whose pc is in pcs, copies counted
CallsAt(b, pcs) ==
  BagCardinality([r \in {q \in BagToSet(b) : q.pc \in pcs} |-> CopiesIn(r, b)])

\* the calls that have an external call pending: the import of the ABI, the
\* contract query, the signature load/sign or the decrypt request
ExternalPcs == {"import", "query", "sign", "decrypt"}

\* C16: a reveal invoked while the FHE client instance, the contract address
\* or the signer is missing makes no external call and changes no status: the
\* click adds a call that only logs and returns.
C16_RevealWithoutPrerequisites ==
  [][ /\ PrerequisiteMissing =>
           /\ CallsAt(reveal', ExternalPcs) <= CallsAt(reveal, ExternalPcs)
           /\ \A m \in Metrics :
                \/ /\ UNCHANGED healthStatuses
                   /\ CallsAt(reveal', {"notready"}) = CallsAt(reveal, {"notready"}) + 1
                \/ ~(RevealNotReady(m) \/ RevealStart(m))
      /\ \/ CallsAt(reveal', {"notready"}) >= CallsAt(reveal, {"notready"})
         \/ /\ BagCardinality(reveal') = BagCardinality(reveal) - 1
            /\ CallsAt(reveal', ExternalPcs) = CallsAt(reveal, ExternalPcs)
            /\ UNCHANGED healthStatuses ]_vars

\* Decrypt was pressed for a checked metric while only the signer was missing
C16_Witness ==
  /\ \E r \in Reveals : r.pc = "notready" /\ checkedMetrics[r.metric]
  /\ ~ethersSigner /\ fhevmInstance /\ deployment = "deployed"
  /\ \E m \in Metrics : healthStatuses[m] \in Known

\* the calls a step takes out of and puts into the calls in flight
Gone == BagToSet(reveal (-) reveal')
New == BagToSet(reveal' (-) reveal)

\* the call q comes from a call of the same metric that was at one of pcs
ComesFrom(q, pcs) == \E r \in Gone : r.metric = q.metric /\ r.pc \in pcs

\* C17: within one reveal the contract is queried first, the signature is
\* asked for after the query has answered, and the decrypt request is made
\* after a signature was obtained: a call awaits the signature only coming
\* from the query, holding the handle the contract has for its metric, and
\* awaits a decrypt only coming from the signature step, for that one handle;
\* a call without a signature returns; a status is stored only by a call
\* that awaited its decrypt, as the classification of the handle it asked.
C17_RevealStepOrder ==
  [][ \/ reveal' = reveal
      \/ /\ \A q \in New :
              CASE q.pc \in {"import", "notready"} ->
                     Gone = {} /\ q.handle = NoHandle
                [] q.pc = "query" ->
                     ComesFrom(q, {"import"}) /\ q.handle = NoHandle
                [] q.pc = "sign" ->
                     /\ ComesFrom(q, {"query"})
                     /\ q.handle = chain[q.metric] /\ q.handle # NoHandle
                [] q.pc = "decrypt" ->
                     \E r \in Gone :
                       /\ r.pc = "sign" /\ r.metric = q.metric
                       /\ q.handle = r.handle /\ q.handle # NoHandle
                [] q.pc = "nosig" -> ComesFrom(q, {"sign"})
                [] q.pc = "caught" -> ComesFrom(q, ExternalPcs)
                [] OTHER -> FALSE
         /\ \/ UNCHANGED healthStatuses
            \/ /\ New = {}
               /\ \E r \in Gone :
                    /\ r.pc = "decrypt"
                    /\ healthStatuses' =
                         [healthStatuses EXCEPT ![r.metric] = ExpectedStatus(r.handle)] ]_vars

\* a reveal of the second metric has the handle of that metric and awaits its
\* decrypt, while a reveal without signature returns and the contract holds
\* another handle for the first metric
C17_Witness ==
  /\ \E r \in Reveals :
       /\ r.pc = "decrypt" /\ r.metric = 1
       /\ r.handle = chain[1] /\ chain[0] \notin {NoHandle, chain[1]}
  /\ \E r \in Reveals : r.pc = "nosig"

\* the calls and steps of a run that completes, in the order of the code
CliOrder ==
  <<"initializeCLIApi", "encrypt", "submit", "wait", "confirmed", "query",
    "decrypt", "print">>

IsPrefix(s, t) == Len(s) <= Len(t) /\ \A i \in 1 .. Len(s) : s[i] = t[i]

\* C18: the task encrypts, submits to the entry point of its metric code,
\* waits for the confirmation, queries the handle of the same metric code,
\* decrypts it and prints its classification, in this order; what is printed
\* is the classification of the handle the contract holds for the metric code
\* after the wait has returned.
C18_CliStepOrder ==
  /\ IsPrefix(cli.log, CliOrder)
  /\ cli.entry # "none" =>
       /\ Called("encrypt")
       /\ ~cli.metricType.nan /\ EntryMetric(cli.entry) = cli.metricType.n
  /\ cli.queried # Null =>
       /\ Called("confirmed")
       /\ cli.queried = cli.metricType.n
       /\ cliChain[cli.queried] # NoHandle
  /\ Called("decrypt") =>
       /\ cli.handle # NoHandle
       /\ cli.handle = cliChain[cli.metricType.n]
  /\ Called("print") =>
       /\ cli.pc = "done"
       /\ Called("confirmed") /\ Called("query") /\ Called("decrypt")
       /\ clearStatus = cliChain[cli.metricType.n]
       /\ Lower(cliStatusText) = ExpectedStatus(cliChain[cli.metricType.n])
  /\ cli.pc = "done" => cli.log = CliOrder

\* a run for metric code 3 has printed LOW
C18_Witness ==
  /\ cli.pc = "done" /\ cli.metricType = Num(3)
  /\ cli.entry = "checkBodyTemperature" /\ cli.queried = 3
  /\ cliStatusText = "LOW" /\ cliChain[3] = 1

\* a check or a reveal of metric m is in flight
TaskInFlight(m) ==
  \/ CheckInFlight /\ checkTask.metric = m
  \/ \E r \in Reveals : r.metric = m

\* C19: whenever the status of a metric is normal, low or high and no check
\* and no reveal of the metric is in flight, the status is the classification
\* of the result of the check of the metric that was confirmed last.  Stated
\* for the sessions in which no check of the metric has failed: every check
\* issued for it is confirmed.
C19_StatusIsOfLastConfirmed ==
  \A m \in Metrics :
    (/\ healthStatuses[m] \in Known
     /\ ~TaskInFlight(m)
     /\ startedCnt[m] = confirmedCnt[m])
      => healthStatuses[m] = ExpectedStatus(lastConfirmed[m])

\* C20 (as stated): for every --metric that does not parse to an integer of
\* 0..4, NaN included, the task fails before initializeCLIApi and before the
\* encryption is called.
C20_RejectsBeforeFheWork ==
  NoMetricCode(cli.metricType) =>
    /\ ~Called("initializeCLIApi") /\ ~Called("encrypt")
    /\ cli.pc \in {"start", "failed"}

\* C20 (amended): a --metric that parses to an integer outside 0..4 fails at
\* the range check, before initializeCLIApi and before the encryption; a
\* --metric that parses to NaN passes the range check and fails at the
\* default branch of the switch, after initializeCLIApi and the encryption
\* were called and before a transaction is sent.
C20_RejectsIntegersOnlyBeforeFheWork ==
  /\ (~cli.metricType.nan /\ cli.metricType.n \notin MetricCodes) =>
       /\ cli.log = << >>
       /\ cli.pc \in {"start", "failed"}
       /\ cli.pc = "failed" => cli.error = "range"
  /\ cli.metricType.nan =>
       /\ cli.error # "range"
       /\ cli.pc = "start" => ENABLED CliRangeOK
       /\ cli.error = "default" => cli.log = <<"initializeCLIApi", "encrypt">>
       /\ IsPrefix(cli.log, <<"initializeCLIApi", "encrypt">>)

\* a non-numeric --metric: the task has called initializeCLIApi and the
\* encryption and was stopped by the default branch of the switch
C20_Witness ==
  /\ cli.metricType.nan
  /\ cli.pc = "failed" /\ cli.error = "default"
  /\ Called("initializeCLIApi") /\ Called("encrypt")

====
